---------------------------- MODULE Spec2Model ----------------------------
(***************************************************************************)
(* A model of icefed/emix: the container codec (FileInfo, EmixHeader,      *)
(* IsEmixFile), the AES-GCM metadata cipher, the AES-XTS sector pipeline   *)
(* (EncryptContent / DecryptContent) and the domix / demix file commands.  *)
(*                                                                         *)
(* Bytes are the integers 0..255 and byte slices are sequences of them.    *)
(* TLC's integers are 32 bits wide, so a uint32 is a pair and a uint64 a   *)
(* quadruple of 16-bit limbs, least significant limb first.                *)
(*                                                                         *)
(* The library primitives (SHA-256, HKDF, AES-GCM, AES-XTS) are replaced   *)
(* by small keyed functions of the same shape: same input and output       *)
(* lengths, deterministic, dependent on every input byte, on the key, the  *)
(* nonce and the sector number.  They are stand-ins for the libraries, not *)
(* cryptography; everything around them is the repository's code.          *)
(***************************************************************************)
EXTENDS Integers, Sequences, FiniteSets, TLC

-----------------------------------------------------------------------------
(* Byte-level helpers *)

Byte == 0..255

Min(a, b) == IF a < b THEN a ELSE b

\* make([]byte, n): n zero bytes
Zeros(n) == [i \in 1..n |-> 0]

\* s[lo:hi] of Go (0-based, hi exclusive) on a sequence; lo <= hi <= Len(s)
Slice(s, lo, hi) == SubSeq(s, lo + 1, hi)

\* Sum of s[lo..hi], by halving
RECURSIVE ByteSum(_, _, _)
ByteSum(s, lo, hi) ==
    IF lo > hi THEN 0
    ELSE IF lo = hi THEN s[lo]
    ELSE ByteSum(s, lo, (lo + hi) \div 2) + ByteSum(s, (lo + hi) \div 2 + 1, hi)

\* Sum of s[i] weighted by the position off + i, by halving
RECURSIVE PosSum(_, _, _, _)
PosSum(s, lo, hi, off) ==
    IF lo > hi THEN 0
    ELSE IF lo = hi THEN s[lo] * (((off + lo) % 64) + 1)
    ELSE PosSum(s, lo, (lo + hi) \div 2, off) + PosSum(s, (lo + hi) \div 2 + 1, hi, off)

\* n little-endian base-256 digits of v
RECURSIVE Digits(_, _)
Digits(v, n) == IF n = 0 THEN << >> ELSE << v % 256 >> \o Digits(v \div 256, n - 1)

\* binary.LittleEndian.AppendUint16 / Uint16
LE16(v) == << v % 256, (v \div 256) % 256 >>
UnLE16(b) == b[1] + 256 * b[2]

\* binary.BigEndian.AppendUint16 / Uint16
BE16(v) == << (v \div 256) % 256, v % 256 >>
UnBE16(b) == 256 * b[1] + b[2]

\* binary.LittleEndian.AppendUint32 / Uint32 on two 16-bit limbs
LE32(v) == LE16(v[1]) \o LE16(v[2])
UnLE32(b) == << UnLE16(SubSeq(b, 1, 2)), UnLE16(SubSeq(b, 3, 4)) >>

\* mutant: the uint64 appended most significant byte first
LE64_BigEndian(v) == BE16(v[4]) \o BE16(v[3]) \o BE16(v[2]) \o BE16(v[1])

\* binary.LittleEndian.AppendUint64 / Uint64 on four 16-bit limbs
LE64(v) == LE16(v[1]) \o LE16(v[2]) \o LE16(v[3]) \o LE16(v[4])
UnLE64(b) ==
    << UnLE16(SubSeq(b, 1, 2)), UnLE16(SubSeq(b, 3, 4)),
       UnLE16(SubSeq(b, 5, 6)), UnLE16(SubSeq(b, 7, 8)) >>

\* uint64(n) for a small non-negative int n, and int64(v) where it fits
U64(n) == << n % 65536, n \div 65536, 0, 0 >>
I64(v) ==
    IF v[4] >= 32768 THEN -1
    ELSE IF v[3] = 0 /\ v[4] = 0 /\ v[2] < 16384 THEN v[1] + 65536 * v[2]
    ELSE 1073741824

-----------------------------------------------------------------------------
(* Library stand-ins *)

HashSize == 32
GCMNonceSize == 12
GCMTagSize == 16

\* sha256 state: hash.Write(p) folds p in, hash.Sum(nil) is the digest
HashNew == [n |-> 0, s1 |-> 0, s2 |-> 0]
HashWrite(h, p) ==
    [n  |-> h.n + Len(p),
     s1 |-> (h.s1 + ByteSum(p, 1, Len(p))) % 16777216,
     s2 |-> (h.s2 + (PosSum(p, 1, Len(p), h.n) % 16777216)) % 16777216]
HashSum(h) ==
    Digits(h.n, 4) \o Digits(h.s1, 4) \o Digits(h.s2, 4)
        \o [i \in 1..(HashSize - 12) |-> (h.s1 + 31 * i + h.n) % 256]

\* sha256.Sum256(data)
Sum256(data) == HashSum(HashWrite(HashNew, data))

\* HKDF(secret, nil, info, length): length bytes drawn from secret and info
InfoNum(info) ==
    CASE info = "aesgem key" -> 17
      [] info = "aesxts key" -> 101
      [] info = "credential file" -> 59
      [] OTHER -> 0
HKDF(secret, info, length) ==
    LET a == PosSum(secret, 1, Len(secret), 0) + InfoNum(info)
        b == ByteSum(secret, 1, Len(secret)) + 29
    IN  [i \in 1..length |-> (a + b * i) % 256]

\* how many distinct outcomes of rand.Read the model tries
RandChoices == 2

\* the bytes rand.Read fills n bytes with, in its k-th outcome
RandBytes(k, n) == [i \in 1..n |-> (37 * k + 11 * i) % 256]

\* a number drawn from the 32 bytes of an AES key
KeyNum(key) == (PosSum(key, 1, Len(key), 0) + key[1]) % 65536

\* the keystream byte at position i under key number k and nonce number m
GCMStream(k, m, i) == (k + m + 7 * i) % 256
NonceNum(nonce) == 3 * nonce[1] + nonce[GCMNonceSize]

\* the 16-byte tag over key, nonce and ciphertext
GCMTag(key, nonce, ct) ==
    Digits(ByteSum(ct, 1, Len(ct)), 3)
        \o Digits(PosSum(ct, 1, Len(ct), 0) % 16777216, 3)
        \o Digits(ByteSum(nonce, 1, Len(nonce)), 2)
        \o Digits(PosSum(nonce, 1, Len(nonce), 0), 3)
        \o Digits(KeyNum(key), 3)
        \o Digits(Len(ct), 2)

\* cipher.AEAD Seal(nil, nonce, plaintext, nil): ciphertext and 16-byte tag
GCMSeal(key, nonce, plainText) ==
    LET k  == KeyNum(key)
        m  == NonceNum(nonce)
        ct == [i \in 1..Len(plainText) |-> (plainText[i] + GCMStream(k, m, i)) % 256]
    IN  ct \o GCMTag(key, nonce, ct)

\* cipher.AEAD Open(nil, nonce, ciphertext, nil)
GCMOpen(key, nonce, sealed) ==
    IF Len(sealed) < GCMTagSize THEN [err |-> "ErrOpen", out |-> << >>]
    ELSE LET ct  == SubSeq(sealed, 1, Len(sealed) - GCMTagSize)
             tag == SubSeq(sealed, Len(sealed) - GCMTagSize + 1, Len(sealed))
             k   == KeyNum(key)
             m   == NonceNum(nonce)
         IN  IF tag # GCMTag(key, nonce, ct) THEN [err |-> "ErrOpen", out |-> << >>]
             ELSE [err |-> "nil",
                   out |-> [i \in 1..Len(ct) |-> (ct[i] + 256 - GCMStream(k, m, i)) % 256]]

-----------------------------------------------------------------------------
(* crypto: AES-GCM for the file info, AES-XTS for the content *)

\* NewAESGCM(key)
NewAESGCM(key) == HKDF(key, "aesgem key", 32)

\* mutant: the nonce is not put in front of the sealed bytes
AESGCMEncrypt_NoNonce(plainText, key, nonce) ==
    GCMSeal(NewAESGCM(key), nonce, plainText)

\* AESGCMEncrypt(plainText, key) with the nonce rand.Read produced
AESGCMEncrypt(plainText, key, nonce) ==
    nonce \o GCMSeal(NewAESGCM(key), nonce, plainText)

\* AESGCMDecrypt(cipherText, key)
AESGCMDecrypt(cipherText, key) ==
    IF Len(cipherText) < GCMNonceSize
    THEN [err |-> "ErrCipherTextTooShort", out |-> << >>]
    ELSE GCMOpen(NewAESGCM(key),
                 SubSeq(cipherText, 1, GCMNonceSize),
                 SubSeq(cipherText, GCMNonceSize + 1, Len(cipherText)))

\* NewAESXTS(key)
NewAESXTS(key) == HKDF(key, "aesxts key", 32)

\* xts.Cipher Encrypt(dst, src, sectorNum) / Decrypt(dst, src, sectorNum):
\* the byte at position i is shifted by a pad drawn from key, sector and i
XTSPad(k, sectorNum, i) == (k + 13 * sectorNum + 7 * (sectorNum \div 256) + 5 * i) % 256
XTSEncrypt(cipher, src, sectorNum) ==
    LET k == KeyNum(cipher)
    IN  [i \in 1..Len(src) |-> (src[i] + XTSPad(k, sectorNum, i)) % 256]
XTSDecrypt(cipher, src, sectorNum) ==
    LET k == KeyNum(cipher)
    IN  [i \in 1..Len(src) |-> (src[i] + 256 - XTSPad(k, sectorNum, i)) % 256]

-----------------------------------------------------------------------------
(* header: FileInfo *)

fileNameMinLength == 1
fileNameMaxLength == 255
fileInfoEncodedMinLength == 2 + fileNameMinLength + 8 + 4 + 8 + 8 + 32
fileInfoEncodedMaxLength == 2 + fileNameMaxLength + 8 + 4 + 8 + 8 + 32

\* the zero value FileInfo{}
ZeroFileInfo ==
    [Name |-> << >>, Size |-> <<0, 0, 0, 0>>, Mode |-> <<0, 0>>,
     CreateTime |-> <<0, 0, 0, 0>>, ModifyTime |-> <<0, 0, 0, 0>>,
     FileContentHash |-> Zeros(32)]

\* FileInfo.EncodedLength
FileInfoEncodedLength(f) == fileInfoEncodedMinLength + Len(f.Name) - fileNameMinLength

\* mutant: the upper name bound off by one
FileInfoMarshalBinary_OffByOne(f) ==
    IF Len(f.Name) < fileNameMinLength THEN [err |-> "ErrNameTooShort", out |-> << >>]
    ELSE IF Len(f.Name) >= fileNameMaxLength THEN [err |-> "ErrNameTooLong", out |-> << >>]
    ELSE [err |-> "nil",
          out |-> LE16(Len(f.Name) % 65536) \o f.Name \o LE64(f.Size) \o LE32(f.Mode)
                    \o LE64(f.CreateTime) \o LE64(f.ModifyTime) \o f.FileContentHash]

\* FileInfo.MarshalBinary: (bytes, error)
FileInfoMarshalBinary(f) ==
    IF Len(f.Name) < fileNameMinLength THEN [err |-> "ErrNameTooShort", out |-> << >>]
    ELSE IF Len(f.Name) > fileNameMaxLength THEN [err |-> "ErrNameTooLong", out |-> << >>]
    ELSE [err |-> "nil",
          out |-> LE16(Len(f.Name) % 65536) \o f.Name \o LE64(f.Size) \o LE32(f.Mode)
                    \o LE64(f.CreateTime) \o LE64(f.ModifyTime) \o f.FileContentHash]

\* FileInfo.UnmarshalBinary(data) on receiver f. tail holds the bytes of the
\* backing array between len(data) and cap(data): a slice expression of Go is
\* checked against the capacity, so the reads may run into them, and past the
\* capacity they panic.  The receiver keeps the fields assigned before the end.
FileInfoUnmarshalBinary(f, data, tail) ==
    IF Len(data) < fileInfoEncodedMinLength
    THEN [err |-> "ErrInvalidEncodedFileInfo", f |-> f, read |-> 0]
    ELSE LET fileNameLength == UnLE16(SubSeq(data, 1, 2))
             all == data \o tail
             i1 == 2 + fileNameLength
         IN  IF fileNameLength < fileNameMinLength \/ fileNameLength > fileNameMaxLength
             THEN [err |-> "ErrInvalidEncodedFileInfo", f |-> f, read |-> 2]
             ELSE IF i1 > Len(all)
             THEN [err |-> "panic", f |-> f, read |-> 2]
             ELSE IF i1 + 8 > Len(all)
             THEN [err |-> "panic", f |-> [f EXCEPT !.Name = Slice(all, 2, i1)], read |-> i1]
             ELSE IF i1 + 12 > Len(all)
             THEN [err |-> "panic",
                   f |-> [f EXCEPT !.Name = Slice(all, 2, i1),
                                   !.Size = UnLE64(Slice(all, i1, i1 + 8))],
                   read |-> i1 + 8]
             ELSE IF i1 + 20 > Len(all)
             THEN [err |-> "panic",
                   f |-> [f EXCEPT !.Name = Slice(all, 2, i1),
                                   !.Size = UnLE64(Slice(all, i1, i1 + 8)),
                                   !.Mode = UnLE32(Slice(all, i1 + 8, i1 + 12))],
                   read |-> i1 + 12]
             ELSE IF i1 + 28 > Len(all)
             THEN [err |-> "panic",
                   f |-> [f EXCEPT !.Name = Slice(all, 2, i1),
                                   !.Size = UnLE64(Slice(all, i1, i1 + 8)),
                                   !.Mode = UnLE32(Slice(all, i1 + 8, i1 + 12)),
                                   !.CreateTime = UnLE64(Slice(all, i1 + 12, i1 + 20))],
                   read |-> i1 + 20]
             ELSE IF i1 + 60 > Len(all)
             THEN [err |-> "panic",
                   f |-> [f EXCEPT !.Name = Slice(all, 2, i1),
                                   !.Size = UnLE64(Slice(all, i1, i1 + 8)),
                                   !.Mode = UnLE32(Slice(all, i1 + 8, i1 + 12)),
                                   !.CreateTime = UnLE64(Slice(all, i1 + 12, i1 + 20)),
                                   !.ModifyTime = UnLE64(Slice(all, i1 + 20, i1 + 28))],
                   read |-> i1 + 28]
             ELSE [err |-> "nil",
                   f |-> [Name |-> Slice(all, 2, i1),
                          Size |-> UnLE64(Slice(all, i1, i1 + 8)),
                          Mode |-> UnLE32(Slice(all, i1 + 8, i1 + 12)),
                          CreateTime |-> UnLE64(Slice(all, i1 + 12, i1 + 20)),
                          ModifyTime |-> UnLE64(Slice(all, i1 + 20, i1 + 28)),
                          FileContentHash |-> Slice(all, i1 + 28, i1 + 60)],
                   read |-> i1 + 60]

-----------------------------------------------------------------------------
(* header: EmixHeader and IsEmixFile *)

\* a & b and a | b on bytes
RECURSIVE BitAnd(_, _)
BitAnd(a, b) ==
    IF a = 0 \/ b = 0 THEN 0
    ELSE (a % 2) * (b % 2) + 2 * BitAnd(a \div 2, b \div 2)
BitOr(a, b) == a + b - BitAnd(a, b)

zipHeaderMagic == << 80, 75, 3, 4 >>
zipHeaderLength == 64
emixHeaderMagic == << 69, 77, 73, 88 >>
emixHeaderMixTypeStandard == << 0, 0 >>
emixHeaderMixTypeEncryptInfo == << 0, 1 >>
emixHeaderMixTypeEncryptData == << 0, 2 >>
emixHeaderEmbedPasswordMask == 1
emixHeaderMinLength == 4 + 16 + 2 + 16 + 2 + fileInfoEncodedMinLength + 32
emixHeaderMaxLength == 4 + 16 + 2 + 16 + 2 + fileInfoEncodedMaxLength + 28 + 32

\* ZipHeader()
ZipHeader == zipHeaderMagic \o Zeros(zipHeaderLength - 4)

\* the zero value EmixHeader{}
ZeroEmixHeader ==
    [EncryptInfo |-> FALSE, EncryptData |-> FALSE, EmbedPassword |-> FALSE,
     Password |-> Zeros(16), FileInfo |-> ZeroFileInfo]

\* mutant: the encrypt-content bit replaces the flag byte instead of joining it
MixTypeBytes_Overwrite(e) ==
    LET b1 == IF e.EncryptInfo THEN BitOr(0, emixHeaderMixTypeEncryptInfo[2]) ELSE 0
        b2 == IF e.EncryptData THEN emixHeaderMixTypeEncryptData[2] ELSE b1
    IN  << IF e.EmbedPassword THEN emixHeaderEmbedPasswordMask ELSE 0, b2 >>

\* the two flag bytes EmixHeader.MarshalBinary writes
MixTypeBytes(e) ==
    LET b1 == IF e.EncryptInfo THEN BitOr(0, emixHeaderMixTypeEncryptInfo[2]) ELSE 0
        b2 == IF e.EncryptData THEN BitOr(b1, emixHeaderMixTypeEncryptData[2]) ELSE b1
    IN  << IF e.EmbedPassword THEN emixHeaderEmbedPasswordMask ELSE 0, b2 >>

\* mutant: the password is written whether or not it is embedded
PasswordField_Always(e) == e.Password

\* the password field EmixHeader.MarshalBinary writes
PasswordField(e) == IF e.EmbedPassword THEN e.Password ELSE Zeros(16)

\* EmixHeader.MarshalBinary with the 16 random bytes and the GCM nonce that
\* rand.Read produced: (bytes, error)
EmixHeaderMarshalBinary(e, random, nonce) ==
    LET head == emixHeaderMagic \o random \o MixTypeBytes(e) \o PasswordField(e)
        fi   == FileInfoMarshalBinary(e.FileInfo)
    IN  IF fi.err # "nil" THEN [err |-> fi.err, out |-> << >>]
        ELSE LET encodedFileInfo ==
                     IF e.EncryptInfo THEN AESGCMEncrypt(fi.out, e.Password, nonce)
                     ELSE fi.out
                 buf == head \o BE16(Len(encodedFileInfo) % 65536) \o encodedFileInfo
             IN  [err |-> "nil", out |-> buf \o Sum256(buf)]

\* header bytes as a writer other than MarshalBinary may lay them out: the
\* file info encoding is followed by pad further bytes inside the file info
\* region, the length field counts them, and the hash is that of the bytes
ForgedHeader(e, random, nonce, pad) ==
    LET head == emixHeaderMagic \o random \o MixTypeBytes(e) \o PasswordField(e)
        fi   == FileInfoMarshalBinary(e.FileInfo).out \o [i \in 1..pad |-> 170]
        encodedFileInfo == IF e.EncryptInfo THEN AESGCMEncrypt(fi, e.Password, nonce) ELSE fi
        buf  == head \o BE16(Len(encodedFileInfo) % 65536) \o encodedFileInfo
    IN  buf \o Sum256(buf)

\* the flags and the password EmixHeader.UnmarshalBinaryFromReader takes from
\* the first 38 bytes of buf
HeaderFlags(e, buf) ==
    LET mixType == Slice(buf, 20, 22)
        embed   == BitAnd(mixType[1], emixHeaderEmbedPasswordMask) > 0
    IN  [e EXCEPT !.EncryptInfo = BitAnd(mixType[2], emixHeaderMixTypeEncryptInfo[2]) > 0,
                  !.EncryptData = BitAnd(mixType[2], emixHeaderMixTypeEncryptData[2]) > 0,
                  !.EmbedPassword = embed,
                  !.Password = IF embed THEN Slice(buf, 22, 38) ELSE @]

\* mutant: the trailing hash is not compared
HeaderHashOK_Skipped(buf, i) == TRUE

\* whether the trailing 32 bytes at offset i of buf are the hash of buf[:i]
HeaderHashOK(buf, i) == Slice(buf, i, i + 32) = Sum256(Slice(buf, 0, i))

\* mutant: the magic is not compared
EmixHeaderDecode_NoMagic(e, buf) ==
    IF Len(buf) < emixHeaderMinLength THEN [err |-> "ErrInvalidEmixHeader", e |-> e]
    ELSE LET e1 == HeaderFlags(e, buf)
             encodedFileInfoLength == UnBE16(Slice(buf, 38, 40))
             i == 40
         IN  IF Len(buf) < i + encodedFileInfoLength + 32
             THEN [err |-> "ErrInvalidEmixHeader", e |-> e1]
             ELSE LET encodedFileInfo == Slice(buf, i, i + encodedFileInfoLength)
                      spare == Slice(buf, i + encodedFileInfoLength, Len(buf))
                                   \o Zeros(emixHeaderMaxLength - Len(buf))
                      dec == IF e1.EncryptInfo
                             THEN AESGCMDecrypt(encodedFileInfo, e1.Password)
                             ELSE [err |-> "nil", out |-> encodedFileInfo]
                  IN  IF dec.err # "nil" THEN [err |-> dec.err, e |-> e1]
                      ELSE LET fi == FileInfoUnmarshalBinary(ZeroFileInfo, dec.out,
                                         IF e1.EncryptInfo THEN << >> ELSE spare)
                           IN  IF fi.err # "nil" THEN [err |-> fi.err, e |-> e1]
                               ELSE IF ~HeaderHashOK(buf, i + encodedFileInfoLength)
                               THEN [err |-> "ErrInvalidEmixHeader",
                                     e |-> [e1 EXCEPT !.FileInfo = fi.f]]
                               ELSE [err |-> "nil", e |-> [e1 EXCEPT !.FileInfo = fi.f]]

\* EmixHeader.UnmarshalBinaryFromReader after the read: buf is buf[:n], the n
\* bytes io.ReadAtLeast obtained; the backing array has emixHeaderMaxLength
\* bytes, zero beyond n.  Returns the error and the receiver as it is left.
EmixHeaderDecode(e, buf) ==
    IF Len(buf) < emixHeaderMinLength THEN [err |-> "ErrInvalidEmixHeader", e |-> e]
    ELSE IF Slice(buf, 0, 4) # emixHeaderMagic THEN [err |-> "ErrInvalidEmixHeader", e |-> e]
    ELSE LET e1 == HeaderFlags(e, buf)
             encodedFileInfoLength == UnBE16(Slice(buf, 38, 40))
             i == 40
         IN  IF Len(buf) < i + encodedFileInfoLength + 32
             THEN [err |-> "ErrInvalidEmixHeader", e |-> e1]
             ELSE LET encodedFileInfo == Slice(buf, i, i + encodedFileInfoLength)
                      spare == Slice(buf, i + encodedFileInfoLength, Len(buf))
                                   \o Zeros(emixHeaderMaxLength - Len(buf))
                      dec == IF e1.EncryptInfo
                             THEN AESGCMDecrypt(encodedFileInfo, e1.Password)
                             ELSE [err |-> "nil", out |-> encodedFileInfo]
                  IN  IF dec.err # "nil" THEN [err |-> dec.err, e |-> e1]
                      ELSE LET fi == FileInfoUnmarshalBinary(ZeroFileInfo, dec.out,
                                         IF e1.EncryptInfo THEN << >> ELSE spare)
                           IN  IF fi.err # "nil" THEN [err |-> fi.err, e |-> e1]
                               ELSE IF ~HeaderHashOK(buf, i + encodedFileInfoLength)
                               THEN [err |-> "ErrInvalidEmixHeader",
                                     e |-> [e1 EXCEPT !.FileInfo = fi.f]]
                               ELSE [err |-> "nil", e |-> [e1 EXCEPT !.FileInfo = fi.f]]

\* io.ReadAtLeast(r, buf, emixHeaderMinLength) on a reader that holds stream and
\* hands out at most chunk bytes per Read: the number of bytes obtained
ReadAtLeastCount(stream, chunk) ==
    LET reads == (emixHeaderMinLength + chunk - 1) \div chunk
    IN  Min(Len(stream), Min(emixHeaderMaxLength, reads * chunk))

\* EmixHeader.UnmarshalBinaryFromReader(r)
EmixHeaderUnmarshalBinaryFromReader(e, stream, chunk) ==
    EmixHeaderDecode(e, SubSeq(stream, 1, ReadAtLeastCount(stream, chunk)))

\* EmixHeader.UnmarshalBinary(data): bytes.NewReader hands out all it has
EmixHeaderUnmarshalBinary(e, data) ==
    IF Len(data) < emixHeaderMinLength THEN [err |-> "ErrInvalidEmixHeader", e |-> e]
    ELSE EmixHeaderUnmarshalBinaryFromReader(e, data, emixHeaderMaxLength)

\* mutant: the nonce and tag of an encrypted file info are not counted
EmixHeaderEncodedLength_NoSeal(e) ==
    4 + 16 + 2 + 16 + 2 + FileInfoEncodedLength(e.FileInfo) + 32

\* EmixHeader.EncodedLength
EmixHeaderEncodedLength(e) ==
    4 + 16 + 2 + 16 + 2 + FileInfoEncodedLength(e.FileInfo) + 32
        + (IF e.EncryptInfo THEN 28 ELSE 0)

\* mutant: the 60 bytes after the zip signature are not looked at
IsEmixFile_NoZeroCheck(data) ==
    LET n   == Min(Len(data), zipHeaderLength + emixHeaderMinLength)
        buf == SubSeq(data, 1, n)
    IN  IF n < zipHeaderLength + emixHeaderMinLength THEN [ok |-> FALSE, err |-> "nil"]
        ELSE IF Slice(buf, 0, 4) # zipHeaderMagic THEN [ok |-> FALSE, err |-> "nil"]
        ELSE IF Slice(buf, 64, 68) # emixHeaderMagic THEN [ok |-> FALSE, err |-> "nil"]
        ELSE [ok |-> TRUE, err |-> "nil"]

\* IsEmixFile(r) on a reader that holds data: (bool, error)
IsEmixFile(data) ==
    LET n   == Min(Len(data), zipHeaderLength + emixHeaderMinLength)
        buf == SubSeq(data, 1, n)
    IN  IF n < zipHeaderLength + emixHeaderMinLength THEN [ok |-> FALSE, err |-> "nil"]
        ELSE IF Slice(buf, 0, 4) # zipHeaderMagic THEN [ok |-> FALSE, err |-> "nil"]
        ELSE IF Slice(buf, 4, 64) # Zeros(60) THEN [ok |-> FALSE, err |-> "nil"]
        ELSE IF Slice(buf, 64, 68) # emixHeaderMagic THEN [ok |-> FALSE, err |-> "nil"]
        ELSE [ok |-> TRUE, err |-> "nil"]

-----------------------------------------------------------------------------
(* content: EncryptContent and DecryptContent *)

XTSSectorSize == 4096
SectorNumberStart == 1024

\* the locals of EncryptContent before its loop: both buffers zero, nothing
\* written, no result yet; used lists the sector numbers handed to the cipher
EncryptContentStart ==
    [plainBuf |-> Zeros(XTSSectorSize), sectorNumber |-> SectorNumberStart,
     written |-> << >>, used |-> << >>, res |-> "running"]

\* mutant: only the bytes read are encrypted and written, not the buffer
EncryptContentStep_ShortSector(cipher, st, data, err, werr) ==
    LET n   == Len(data)
        buf == data \o SubSeq(st.plainBuf, n + 1, XTSSectorSize)
        st1 == IF n > 0
               THEN [st EXCEPT !.plainBuf = buf,
                               !.written = @ \o XTSEncrypt(cipher, data, st.sectorNumber),
                               !.used = Append(@, st.sectorNumber),
                               !.sectorNumber = @ + 1]
               ELSE st
    IN  IF n > 0 /\ werr # "nil"
        THEN [st EXCEPT !.plainBuf = buf, !.used = Append(@, st.sectorNumber), !.res = werr]
        ELSE IF err = "nil" THEN st1
        ELSE IF err = "EOF" THEN [st1 EXCEPT !.res = "nil"]
        ELSE [st1 EXCEPT !.res = err]

\* mutant: the sector number is not advanced after a sector is written
EncryptContentStep_NoAdvance(cipher, st, data, err, werr) ==
    LET n   == Len(data)
        buf == data \o SubSeq(st.plainBuf, n + 1, XTSSectorSize)
        st1 == IF n > 0
               THEN [st EXCEPT !.plainBuf = buf,
                               !.written = @ \o XTSEncrypt(cipher, buf, st.sectorNumber),
                               !.used = Append(@, st.sectorNumber)]
               ELSE st
    IN  IF n > 0 /\ werr # "nil"
        THEN [st EXCEPT !.plainBuf = buf, !.used = Append(@, st.sectorNumber), !.res = werr]
        ELSE IF err = "nil" THEN st1
        ELSE IF err = "EOF" THEN [st1 EXCEPT !.res = "nil"]
        ELSE [st1 EXCEPT !.res = err]

\* one turn of EncryptContent's loop: reader.Read(plainBuf) returned
\* (Len(data), err) after storing data at the front of plainBuf, and the
\* writer answers a Write with werr
EncryptContentStep(cipher, st, data, err, werr) ==
    LET n   == Len(data)
        buf == data \o SubSeq(st.plainBuf, n + 1, XTSSectorSize)
        st1 == IF n > 0
               THEN [st EXCEPT !.plainBuf = buf,
                               !.written = @ \o XTSEncrypt(cipher, buf, st.sectorNumber),
                               !.used = Append(@, st.sectorNumber),
                               !.sectorNumber = @ + 1]
               ELSE st
    IN  IF n > 0 /\ werr # "nil"
        THEN [st EXCEPT !.plainBuf = buf, !.used = Append(@, st.sectorNumber), !.res = werr]
        ELSE IF err = "nil" THEN st1
        ELSE IF err = "EOF" THEN [st1 EXCEPT !.res = "nil"]
        ELSE [st1 EXCEPT !.res = err]

\* mutant: the sector number of decryption starts at 0
DecryptContentStart_FromZero(size) ==
    [leftSize |-> size, sectorNumber |-> 0, out |-> << >>,
     used |-> << >>, lastN |-> -1, res |-> IF size > 0 THEN "running" ELSE "nil"]

\* the locals of DecryptContent before its loop; a size <= 0 skips the loop
DecryptContentStart(size) ==
    [leftSize |-> size, sectorNumber |-> SectorNumberStart, out |-> << >>,
     used |-> << >>, lastN |-> -1, res |-> IF size > 0 THEN "running" ELSE "nil"]

\* mutant: a sector read short is skipped instead of refused
DecryptContentStep_NoShortCheck(cipher, st, data, err, werr) ==
    LET n   == Len(data)
        st0 == [st EXCEPT !.lastN = n]
        st1 == IF n = XTSSectorSize
               THEN [st0 EXCEPT !.out = @ \o SubSeq(XTSDecrypt(cipher, data, st.sectorNumber),
                                                   1, Min(XTSSectorSize, st.leftSize)),
                                !.used = Append(@, st.sectorNumber),
                                !.sectorNumber = @ + 1]
               ELSE st0
    IN  IF n = XTSSectorSize /\ werr # "nil"
        THEN [st0 EXCEPT !.used = Append(@, st.sectorNumber), !.res = werr]
        ELSE IF err = "EOF" THEN [st1 EXCEPT !.res = "nil"]
        ELSE IF err # "nil" THEN [st1 EXCEPT !.res = err]
        ELSE [st1 EXCEPT !.leftSize = @ - XTSSectorSize,
                         !.res = IF st.leftSize - XTSSectorSize > 0 THEN "running" ELSE "nil"]

\* one turn of DecryptContent's loop, entered with leftSize > 0:
\* reader.Read(cipherBuf) returned (Len(data), err)
DecryptContentStep(cipher, st, data, err, werr) ==
    LET n   == Len(data)
        st0 == [st EXCEPT !.lastN = n]
        st1 == IF n = XTSSectorSize
               THEN [st0 EXCEPT !.out = @ \o SubSeq(XTSDecrypt(cipher, data, st.sectorNumber),
                                                   1, Min(XTSSectorSize, st.leftSize)),
                                !.used = Append(@, st.sectorNumber),
                                !.sectorNumber = @ + 1]
               ELSE st0
    IN  IF n > 0 /\ n < XTSSectorSize THEN [st0 EXCEPT !.res = "ErrInvalidEmixFileContent"]
        ELSE IF n = XTSSectorSize /\ werr # "nil"
        THEN [st0 EXCEPT !.used = Append(@, st.sectorNumber), !.res = werr]
        ELSE IF err = "EOF" THEN [st1 EXCEPT !.res = "nil"]
        ELSE IF err # "nil" THEN [st1 EXCEPT !.res = err]
        ELSE [st1 EXCEPT !.leftSize = @ - XTSSectorSize,
                         !.res = IF st.leftSize - XTSSectorSize > 0 THEN "running" ELSE "nil"]

\* what a Read into a buffer of room bytes may return when avail bytes are
\* left in the stream: it fills the buffer or hands out all that is left, and
\* reports the end with the last bytes or after them; while mayShort it may
\* also hand out fewer bytes, or none; and it may fail
ShortReads == { 1, 4095 }
ReadOutcomes(avail, room, mayShort) ==
    (IF avail = 0 THEN { [n |-> 0, err |-> "EOF"] }
     ELSE { [n |-> Min(avail, room), err |-> "nil"] }
          \cup (IF avail <= room THEN { [n |-> avail, err |-> "EOF"] } ELSE { }))
    \cup (IF mayShort
          THEN { [n |-> k, err |-> "nil"] : k \in { j \in ShortReads : j < Min(avail, room) } }
               \cup { [n |-> 0, err |-> "nil"] }
          ELSE { })
    \cup { [n |-> 0, err |-> "ErrRead"] }

\* whether Read outcome r hands out fewer bytes than it could, without an end
IsShortRead(r, avail, room) == r.err = "nil" /\ (r.n = 0 \/ r.n < Min(avail, room))

\* what a Write may answer
WriteOutcomes == { "nil", "ErrWrite" }

\* EncryptContent run to its end on an *os.File that holds plain from pos on:
\* a file read fills the buffer until the end and then returns (0, EOF)
RECURSIVE EncryptContentAll(_, _, _, _)
EncryptContentAll(cipher, st, plain, pos) ==
    IF st.res # "running" THEN st
    ELSE LET n == Min(XTSSectorSize, Len(plain) - pos)
         IN  IF n = 0 THEN EncryptContentStep(cipher, st, << >>, "EOF", "nil")
             ELSE EncryptContentAll(cipher,
                      EncryptContentStep(cipher, st, SubSeq(plain, pos + 1, pos + n), "nil", "nil"),
                      plain, pos + n)

\* DecryptContent run to its end on an *os.File that holds stream from pos on
RECURSIVE DecryptContentAll(_, _, _, _)
DecryptContentAll(cipher, st, stream, pos) ==
    IF st.res # "running" THEN st
    ELSE LET n == Min(XTSSectorSize, Len(stream) - pos)
         IN  IF n = 0 THEN DecryptContentStep(cipher, st, << >>, "EOF", "nil")
             ELSE DecryptContentAll(cipher,
                      DecryptContentStep(cipher, st, SubSeq(stream, pos + 1, pos + n), "nil", "nil"),
                      stream, pos + n)

-----------------------------------------------------------------------------
(* cmd: domix and demix *)

\* copy(o.password[:], password): 16 bytes, zero after the bytes copied
CopyPassword(password) ==
    SubSeq(password, 1, Min(16, Len(password))) \o Zeros(16 - Min(16, Len(password)))

\* inputPassword(): the error it returns for what the terminal handed over
InputPasswordErr(typed) ==
    IF Len(typed) = 0 \/ Len(typed) > 16
    THEN "password length must be between 1 and 16" ELSE "nil"

\* GeneratePasswordFromFile(filePath) on a file that holds data
GeneratePasswordFromFile(data) ==
    HKDF(HashSum(HashWrite(HashNew, data)), "credential file", 16)

\* GenerateRandomPassword(length) with the k-th outcome of rand.Read; no
\* function of cmd calls it
GenerateRandomPassword(k, length) == RandBytes(k, length)

\* DomixOptions.Validate as far as the secret goes: o holds the flags, typed
\* and again what the terminal hands over, cred the bytes of the credential
\* file.  Returns the error and the options as they are left.
DomixValidate(o, typed, again, cred) ==
    IF o.Password /\ o.CredentialFile
    THEN [err |-> "can not set both --password and --credential-file", o |-> o]
    ELSE IF (o.Password \/ o.CredentialFile) /\ o.EmbedPassword
    THEN [err |-> "can not set both --password, --credential-file and --embed-password",
          o |-> o]
    ELSE IF o.MixType > 2
    THEN [err |-> "invalid --type, only support 0, 1, 2, see help for details", o |-> o]
    ELSE IF o.MixType = 0 /\ (o.Password \/ o.EmbedPassword \/ o.CredentialFile)
    THEN [err |-> "invalid --type 0, can not set password or embed-password", o |-> o]
    ELSE IF o.MixType # 0 /\ ~o.Password /\ ~o.EmbedPassword /\ ~o.CredentialFile
    THEN [err |-> "invalid --type, need password or embed-password or credential-file",
          o |-> o]
    ELSE IF o.Password /\ InputPasswordErr(typed) # "nil"
    THEN [err |-> InputPasswordErr(typed), o |-> o]
    ELSE IF o.Password /\ again # typed
    THEN [err |-> "password is not same", o |-> o]
    ELSE [err |-> "nil",
          o |-> [o EXCEPT !.password =
                    IF o.Password THEN CopyPassword(typed)
                    ELSE IF o.CredentialFile
                    THEN CopyPassword(GeneratePasswordFromFile(cred))
                    ELSE @]]

\* DemixOptions.Validate as far as the secret goes
DemixValidate(o, typed, cred) ==
    IF o.Password /\ o.CredentialFile
    THEN [err |-> "can not set both --password and --credential-file", o |-> o]
    ELSE IF o.Password /\ InputPasswordErr(typed) # "nil"
    THEN [err |-> InputPasswordErr(typed), o |-> o]
    ELSE [err |-> "nil",
          o |-> [o EXCEPT !.password =
                    IF o.Password THEN CopyPassword(typed)
                    ELSE IF o.CredentialFile
                    THEN CopyPassword(GeneratePasswordFromFile(cred))
                    ELSE @]]

\* the EmixHeader DomixOptions.EncryptFile builds for the source file src
\* before it opens the target; mode and times are what os.Stat reported
EncryptFileHeader(o, src) ==
    [EncryptInfo   |-> o.MixType = 1,
     EncryptData   |-> o.MixType = 2,
     EmbedPassword |-> o.EmbedPassword,
     Password      |-> o.password,
     FileInfo      |-> [Name |-> src.name, Size |-> U64(Len(src.data)),
                        Mode |-> src.mode, CreateTime |-> src.ctime,
                        ModifyTime |-> src.mtime, FileContentHash |-> Zeros(32)]]

\* a Write of data to a file that holds f, at offset off: the gap a Seek
\* past the end leaves reads as zero
WriteAt(f, off, data) ==
    IF Len(data) = 0 THEN f
    ELSE SubSeq(f, 1, Min(off, Len(f))) \o Zeros(off - Min(off, Len(f)))
             \o data \o SubSeq(f, off + Len(data) + 1, Len(f))

\* the buffer io.Copy reads the source through
CopyBufferSize == 32768

\* what the content loop of EncryptFile takes from the source per Read
ContentChunk(emixHeader) == IF emixHeader.EncryptData THEN XTSSectorSize ELSE CopyBufferSize

\* the bytes the content loop writes for the source bytes plain
ContentBytes(o, emixHeader, plain) ==
    IF emixHeader.EncryptData
    THEN EncryptContentAll(NewAESXTS(o.password), EncryptContentStart, plain, 0).written
    ELSE plain

\* the error of EncryptFile when its content loop fails
ContentError(emixHeader) ==
    IF emixHeader.EncryptData
    THEN "Write encrypted file content error"
    ELSE "Write file content error"

\* no Read or Write fails
NoFailure == [err |-> "nil", at |-> 0]

\* mutant: the zip header and the header are written before the content
EncryptFileContent_PrefixFirst(o, emixHeader, src, io) ==
    LET off    == zipHeaderLength + EmixHeaderEncodedLength(emixHeader)
        chunk  == ContentChunk(emixHeader)
        reads  == (Len(src.data) + chunk - 1) \div chunk
        header == EmixHeaderMarshalBinary(emixHeader, RandBytes(1, 16), RandBytes(2, GCMNonceSize))
        first  == WriteAt(<< >>, 0, ZipHeader \o header.out)
    IN  IF io.err = "ErrRead" /\ io.at <= reads
        THEN LET done == Min(io.at * chunk, Len(src.data))
             IN  [target |-> WriteAt(first, off, ContentBytes(o, emixHeader, SubSeq(src.data, 1, done))),
                  hash |-> HashWrite(HashNew, SubSeq(src.data, 1, done)),
                  res |-> ContentError(emixHeader)]
        ELSE IF io.err = "ErrWrite" /\ io.at < reads
        THEN LET done == io.at * chunk
                 read == Min((io.at + 1) * chunk, Len(src.data))
             IN  [target |-> WriteAt(first, off, ContentBytes(o, emixHeader, SubSeq(src.data, 1, done))),
                  hash |-> HashWrite(HashNew, SubSeq(src.data, 1, read)),
                  res |-> ContentError(emixHeader)]
        ELSE [target |-> WriteAt(first, off, ContentBytes(o, emixHeader, src.data)),
              hash |-> HashWrite(HashNew, src.data), res |-> "running"]

\* DomixOptions.EncryptFile from os.Create to the end of the content: the
\* target is created empty, the source is read through the tee into the hash
\* and written, encrypted or copied, at offset 64 + EncodedLength.  io names the
\* Read of the source or the Write to the target that fails, counted from 0, if
\* the loop gets that far: the chunks before it are in the target, the bytes
\* read are in the hash.  Gives the target, the hash and the error returned, if
\* any.
EncryptFileContent(o, emixHeader, src, io) ==
    LET off   == zipHeaderLength + EmixHeaderEncodedLength(emixHeader)
        chunk == ContentChunk(emixHeader)
        reads == (Len(src.data) + chunk - 1) \div chunk
    IN  IF io.err = "ErrRead" /\ io.at <= reads
        THEN LET done == Min(io.at * chunk, Len(src.data))
             IN  [target |-> WriteAt(<< >>, off, ContentBytes(o, emixHeader, SubSeq(src.data, 1, done))),
                  hash |-> HashWrite(HashNew, SubSeq(src.data, 1, done)),
                  res |-> ContentError(emixHeader)]
        ELSE IF io.err = "ErrWrite" /\ io.at < reads
        THEN LET done == io.at * chunk
                 read == Min((io.at + 1) * chunk, Len(src.data))
             IN  [target |-> WriteAt(<< >>, off, ContentBytes(o, emixHeader, SubSeq(src.data, 1, done))),
                  hash |-> HashWrite(HashNew, SubSeq(src.data, 1, read)),
                  res |-> ContentError(emixHeader)]
        ELSE [target |-> WriteAt(<< >>, off, ContentBytes(o, emixHeader, src.data)),
              hash |-> HashWrite(HashNew, src.data), res |-> "running"]

\* mutant: the content hash is not copied into the FileInfo
EncryptFilePrefix_NoHash(emixHeader, target, hash, random, nonce) ==
    LET t1 == WriteAt(target, 0, ZipHeader)
        encodedHeader == EmixHeaderMarshalBinary(emixHeader, random, nonce)
    IN  IF encodedHeader.err # "nil"
        THEN [target |-> t1, emixHeader |-> emixHeader, res |-> "Encode emix header error"]
        ELSE [target |-> WriteAt(t1, zipHeaderLength, encodedHeader.out),
              emixHeader |-> emixHeader, res |-> "nil"]

\* the rest of DomixOptions.EncryptFile: back to offset 0, the zip header, the
\* hash into the FileInfo, the header marshalled and written
EncryptFilePrefix(emixHeader, target, hash, random, nonce) ==
    LET t1 == WriteAt(target, 0, ZipHeader)
        e1 == [emixHeader EXCEPT !.FileInfo.FileContentHash = HashSum(hash)]
        encodedHeader == EmixHeaderMarshalBinary(e1, random, nonce)
    IN  IF encodedHeader.err # "nil"
        THEN [target |-> t1, emixHeader |-> e1, res |-> "Encode emix header error"]
        ELSE [target |-> WriteAt(t1, zipHeaderLength, encodedHeader.out),
              emixHeader |-> e1, res |-> "nil"]

\* what DemixOptions.DecryptFile leaves when it does not get to os.Create
NoOutput(res, ignored, e) ==
    [res |-> res, ignored |-> ignored, emixHeader |-> e,
     created |-> FALSE, name |-> << >>, data |-> << >>]

\* DemixOptions.DecryptFile on a file that holds f: the error returned ("nil"
\* for none), whether the file was passed over as not an emix file, the header
\* as decoded, and the output file created, with its name and bytes
DecryptFile(o, f) ==
    LET ok == IsEmixFile(f)
    IN  IF ok.err # "nil" THEN NoOutput(ok.err, FALSE, ZeroEmixHeader)
        ELSE IF ~ok.ok THEN NoOutput("nil", TRUE, ZeroEmixHeader)
        ELSE LET h == EmixHeaderUnmarshalBinaryFromReader(
                          [ZeroEmixHeader EXCEPT !.Password = o.password],
                          SubSeq(f, zipHeaderLength + 1, Len(f)), emixHeaderMaxLength)
             IN  IF h.err = "ErrInvalidEmixHeader" THEN NoOutput("nil", TRUE, h.e)
                 ELSE IF h.err # "nil" THEN NoOutput(h.err, FALSE, h.e)
                 ELSE LET off == zipHeaderLength + EmixHeaderEncodedLength(h.e)
                          content == SubSeq(f, off + 1, Len(f))
                          st == IF h.e.EncryptData
                                THEN DecryptContentAll(NewAESXTS(o.password),
                                         DecryptContentStart(I64(h.e.FileInfo.Size)),
                                         content, 0)
                                ELSE [out |-> content, res |-> "nil"]
                          res == IF st.res # "nil"
                                 THEN "Write decrypted file content error"
                                 ELSE IF h.e.FileInfo.FileContentHash # Sum256(st.out)
                                 THEN "File content hash mismatch"
                                 ELSE "nil"
                      IN  [res |-> res, ignored |-> FALSE, emixHeader |-> h.e,
                           created |-> TRUE, name |-> h.e.FileInfo.Name, data |-> st.out]

-----------------------------------------------------------------------------
(* The codec machine: a caller builds an EmixHeader, marshals its FileInfo or
   the whole header, the bytes may be changed on the way, and a caller decodes
   them or asks IsEmixFile about a file that carries them. *)

VARIABLES
    cpc,        \* where the codec run stands
    hdr,        \* the EmixHeader the caller built
    fiEnc,      \* what FileInfo.MarshalBinary returned
    fiDec,      \* what FileInfo.UnmarshalBinary returned
    fiIn,       \* bytes handed to FileInfo.UnmarshalBinary: data, and tail up to cap(data)
    enc,        \* what EmixHeader.MarshalBinary returned
    wire,       \* the header bytes as they reach the decoder
    changed,    \* 0, the 1-based index of the byte changed on the way, -1 cut, -2 forged
    caller,     \* the Password of the receiver handed to UnmarshalBinary
    dec,        \* what EmixHeader.UnmarshalBinary returned, and the receiver
    file,       \* the bytes handed to IsEmixFile
    det         \* what IsEmixFile returned

codecVars == << cpc, hdr, fiEnc, fiDec, fiIn, enc, wire, changed, caller, dec, file, det >>

VARIABLES
    kpc,        \* where the content run stands
    plainLen,   \* the length of the plaintext stream
    epos,       \* how many plaintext bytes EncryptContent's reader has handed out
    eshort,     \* how many of its reads were short
    es,         \* the locals of EncryptContent, and its result
    stream,     \* the ciphertext stream handed to DecryptContent
    dpos,       \* how many ciphertext bytes DecryptContent's reader has handed out
    dshort,     \* how many of its reads were short
    ds          \* the locals of DecryptContent, and its result

contentVars == << kpc, plainLen, epos, eshort, es, stream, dpos, dshort, ds >>

VARIABLES
    fpc,        \* where the domix / demix run stands
    dom,        \* the DomixOptions, with what the terminal and the credential file hold
    srcFile,    \* the source file: name, bytes, mode and times
    ef,         \* the locals of EncryptFile: emixHeader, hash, and its result
    target,     \* the bytes of the file EncryptFile writes
    dem,        \* the DemixOptions, with what the terminal and the credential file hold
    df          \* what DecryptFile returned and left behind

fileVars == << fpc, dom, srcFile, ef, target, dem, df >>

VARIABLES
    xpc,        \* where the AES-GCM run stands
    xkey,       \* the key AESGCMEncrypt is given
    xplain,     \* the plaintext
    xnonce,     \* the nonce rand.Read produced
    xsealed,    \* what AESGCMEncrypt returned, as it reaches AESGCMDecrypt
    xcut,       \* whether bytes were cut off on the way
    xkey2,      \* the key AESGCMDecrypt is given
    xopened     \* what AESGCMDecrypt returned

cryptoVars == << xpc, xkey, xplain, xnonce, xsealed, xcut, xkey2, xopened >>

vars == << codecVars, contentVars, fileVars, cryptoVars >>

\* file names of n bytes
NameOf(n) == [i \in 1..n |-> 97 + (i % 26)]

\* the secrets callers hold: none, and the one of header_test.go
NoPassword == Zeros(16)
TestPassword == [i \in 1..16 |-> i]
Passwords == { NoPassword, TestPassword }

\* FileInfo values: the one of header_test.go, and one with every field at
\* the top of its range
SampleFileInfo(n, full) ==
    IF full
    THEN [Name |-> NameOf(n), Size |-> <<65535, 65535, 65535, 65535>>,
          Mode |-> <<65535, 65535>>, CreateTime |-> <<1, 2, 3, 4>>,
          ModifyTime |-> <<65535, 0, 0, 32768>>,
          FileContentHash |-> [i \in 1..32 |-> 255 - i]]
    ELSE [Name |-> NameOf(n), Size |-> U64(1024), Mode |-> <<420, 0>>,
          CreateTime |-> <<4660, 22136, 37035, 6000>>,
          ModifyTime |-> <<4661, 22136, 37035, 6000>>,
          FileContentHash |-> Sum256(<<116, 101, 115, 116>>)]

\* names of 0, 1, 8 and 256 bytes under every flag combination and password,
\* and the longest legal name under the two variants of header_test.go
ShortFileInfos ==
    { SampleFileInfo(0, FALSE), SampleFileInfo(1, TRUE), SampleFileInfo(8, FALSE),
      SampleFileInfo(256, FALSE) }

Headers ==
    { [EncryptInfo |-> ei, EncryptData |-> ed, EmbedPassword |-> ep,
       Password |-> pw, FileInfo |-> fi] :
         ei \in BOOLEAN, ed \in BOOLEAN, ep \in BOOLEAN, pw \in Passwords,
         fi \in ShortFileInfos }
    \cup
    { [EncryptInfo |-> FALSE, EncryptData |-> FALSE, EmbedPassword |-> FALSE,
       Password |-> NoPassword, FileInfo |-> SampleFileInfo(255, TRUE)],
      [EncryptInfo |-> TRUE, EncryptData |-> FALSE, EmbedPassword |-> TRUE,
       Password |-> TestPassword, FileInfo |-> SampleFileInfo(255, TRUE)] }

NoBytes == [err |-> "none", out |-> << >>]
NoFileInfo == [err |-> "none", f |-> ZeroFileInfo, read |-> 0]
NoInput == [data |-> << >>, tail |-> << >>]
NoHeader == [err |-> "none", e |-> ZeroEmixHeader]
NoDetect == [ok |-> FALSE, err |-> "none"]

\* the codec machine at rest
CodecIdle ==
    /\ cpc = "idle"
    /\ hdr = ZeroEmixHeader
    /\ fiEnc = NoBytes
    /\ fiDec = NoFileInfo
    /\ fiIn = NoInput
    /\ enc = NoBytes
    /\ wire = << >>
    /\ changed = 0
    /\ caller = Zeros(16)
    /\ dec = NoHeader
    /\ file = << >>
    /\ det = NoDetect

\* the content machine at rest
ContentIdle ==
    /\ kpc = "idle"
    /\ plainLen = 0
    /\ epos = 0
    /\ eshort = 0
    /\ es = EncryptContentStart
    /\ stream = << >>
    /\ dpos = 0
    /\ dshort = 0
    /\ ds = DecryptContentStart(0)

\* the options before the command line is read
NoDomix ==
    [MixType |-> 0, Password |-> FALSE, CredentialFile |-> FALSE, EmbedPassword |-> FALSE,
     password |-> Zeros(16), typed |-> << >>, again |-> << >>, cred |-> << >>, err |-> "none"]
NoDemix ==
    [Password |-> FALSE, CredentialFile |-> FALSE, password |-> Zeros(16),
     typed |-> << >>, cred |-> << >>, err |-> "none"]
NoSource ==
    [name |-> << >>, data |-> << >>, mode |-> << 0, 0 >>, ctime |-> U64(0), mtime |-> U64(0)]
NoEncryptFile == [emixHeader |-> ZeroEmixHeader, hash |-> HashNew, res |-> "none"]
NoDecryptFile == NoOutput("none", FALSE, ZeroEmixHeader)

\* the domix / demix machine at rest
FileIdle ==
    /\ fpc = "idle"
    /\ dom = NoDomix
    /\ srcFile = NoSource
    /\ ef = NoEncryptFile
    /\ target = << >>
    /\ dem = NoDemix
    /\ df = NoDecryptFile

\* the AES-GCM machine at rest
CryptoIdle ==
    /\ xpc = "idle"
    /\ xkey = Zeros(16)
    /\ xplain = << >>
    /\ xnonce = << >>
    /\ xsealed = << >>
    /\ xcut = FALSE
    /\ xkey2 = Zeros(16)
    /\ xopened = NoBytes

InitCodec ==
    /\ ContentIdle
    /\ FileIdle
    /\ CryptoIdle
    /\ cpc = "built"
    /\ hdr \in Headers
    /\ fiEnc = NoBytes
    /\ fiDec = NoFileInfo
    /\ fiIn = NoInput
    /\ enc = NoBytes
    /\ wire = << >>
    /\ changed = 0
    /\ caller = NoPassword
    /\ dec = NoHeader
    /\ file = << >>
    /\ det = NoDetect

\* info.MarshalBinary()
MarshalFileInfo ==
    /\ cpc = "built"
    /\ fiEnc' = FileInfoMarshalBinary(hdr.FileInfo)
    /\ cpc' = "fileinfo marshalled"
    /\ UNCHANGED << hdr, fiDec, fiIn, enc, wire, changed, caller, dec, file, det >>
    /\ UNCHANGED << contentVars, fileVars, cryptoVars >>

\* info2.UnmarshalBinary(buf) into a fresh FileInfo
UnmarshalFileInfo ==
    /\ cpc = "fileinfo marshalled"
    /\ fiEnc.err = "nil"
    /\ fiDec' = FileInfoUnmarshalBinary(ZeroFileInfo, fiEnc.out, << >>)
    /\ cpc' = "fileinfo unmarshalled"
    /\ UNCHANGED << hdr, fiEnc, fiIn, enc, wire, changed, caller, dec, file, det >>
    /\ UNCHANGED << contentVars, fileVars, cryptoVars >>

\* values written into the nameLength field of an encoded FileInfo
NameLengthFields == {0, 1, 2, 8, 200, 255, 256}

\* lengths an encoded FileInfo of len bytes is cut to
FileInfoCuts(len) == {0, 1, fileInfoEncodedMinLength - 1, fileInfoEncodedMinLength, len}

\* number of bytes between len(data) and cap(data)
SpareLengths == {0, 8, 320}

\* a caller builds the argument of UnmarshalBinary: an encoding whose
\* nameLength field is overwritten, cut to some length, in a backing array with
\* some spare capacity
ReceiveFileInfo ==
    /\ cpc = "fileinfo marshalled"
    /\ fiEnc.err = "nil"
    /\ \E v \in NameLengthFields, c \in FileInfoCuts(Len(fiEnc.out)), s \in SpareLengths :
          LET whole == LE16(v) \o SubSeq(fiEnc.out, 3, Len(fiEnc.out))
          IN  fiIn' = [data |-> SubSeq(whole, 1, c),
                       tail |-> SubSeq(SubSeq(whole, c + 1, Len(whole)) \o Zeros(s), 1, s)]
    /\ cpc' = "fileinfo received"
    /\ UNCHANGED << hdr, fiEnc, fiDec, enc, wire, changed, caller, dec, file, det >>
    /\ UNCHANGED << contentVars, fileVars, cryptoVars >>

\* info2.UnmarshalBinary(data) into a fresh FileInfo
UnmarshalReceived ==
    /\ cpc = "fileinfo received"
    /\ fiDec' = FileInfoUnmarshalBinary(ZeroFileInfo, fiIn.data, fiIn.tail)
    /\ cpc' = "received unmarshalled"
    /\ UNCHANGED << hdr, fiEnc, fiIn, enc, wire, changed, caller, dec, file, det >>
    /\ UNCHANGED << contentVars, fileVars, cryptoVars >>

\* header.MarshalBinary()
MarshalHeader ==
    /\ cpc = "built"
    /\ \E k \in 1..RandChoices :
          enc' = EmixHeaderMarshalBinary(hdr, RandBytes(k, 16), RandBytes(k + 1, GCMNonceSize))
    /\ wire' = enc'.out
    /\ cpc' = "marshalled"
    /\ UNCHANGED << hdr, fiEnc, fiDec, fiIn, changed, caller, dec, file, det >>
    /\ UNCHANGED << contentVars, fileVars, cryptoVars >>

\* one byte of the encoded header is changed on the way
ChangeByte ==
    /\ cpc = "marshalled"
    /\ enc.err = "nil"
    /\ \E p \in 1..Len(wire) :
          /\ wire' = [wire EXCEPT ![p] = 255 - @]
          /\ changed' = p
    /\ cpc' = "changed"
    /\ UNCHANGED << hdr, fiEnc, fiDec, fiIn, enc, caller, dec, file, det >>
    /\ UNCHANGED << contentVars, fileVars, cryptoVars >>

\* the encoded header loses its tail on the way
HeaderCuts(len) == { c \in { 0, 3, emixHeaderMinLength - 1, emixHeaderMinLength, len - 32, len - 1 } :
                       c >= 0 /\ c < len }
CutHeader ==
    /\ cpc = "marshalled"
    /\ enc.err = "nil"
    /\ \E c \in HeaderCuts(Len(wire)) : wire' = SubSeq(wire, 1, c)
    /\ changed' = -1
    /\ cpc' = "cut"
    /\ UNCHANGED << hdr, fiEnc, fiDec, fiIn, enc, caller, dec, file, det >>
    /\ UNCHANGED << contentVars, fileVars, cryptoVars >>

\* the header bytes come from a writer other than MarshalBinary
ForgedPads == { 1, 5 }
ForgeHeader ==
    /\ cpc = "built"
    /\ Len(hdr.FileInfo.Name) \in 1..8
    /\ \E pad \in ForgedPads :
          wire' = ForgedHeader(hdr, RandBytes(1, 16), RandBytes(2, GCMNonceSize), pad)
    /\ changed' = -2
    /\ cpc' = "forged"
    /\ UNCHANGED << hdr, fiEnc, fiDec, fiIn, enc, caller, dec, file, det >>
    /\ UNCHANGED << contentVars, fileVars, cryptoVars >>

\* header2.UnmarshalBinary(buf), the receiver holding the caller's password
UnmarshalHeader ==
    /\ cpc \in { "marshalled", "changed", "cut", "forged" }
    /\ cpc = "forged" \/ enc.err = "nil"
    /\ \E pw \in Passwords :
          /\ caller' = pw
          /\ dec' = EmixHeaderUnmarshalBinary([ZeroEmixHeader EXCEPT !.Password = pw], wire)
    /\ cpc' = "unmarshalled"
    /\ UNCHANGED << hdr, fiEnc, fiDec, fiIn, enc, wire, changed, file, det >>
    /\ UNCHANGED << contentVars, fileVars, cryptoVars >>

\* content bytes that follow the header in the stream
StreamContent == [i \in 1..64 |-> i]

\* sizes of the chunks in which a reader hands out the stream
ReaderChunks == {1, 7, 100, emixHeaderMinLength, emixHeaderMinLength + 1, 200, emixHeaderMaxLength}

\* e.UnmarshalBinaryFromReader(r) on a reader that holds an encoded header
\* followed by content and hands it out in chunks
ReadHeader ==
    /\ cpc = "marshalled"
    /\ enc.err = "nil"
    /\ wire' = enc.out \o StreamContent
    /\ \E pw \in Passwords, chunk \in ReaderChunks :
          /\ caller' = pw
          /\ dec' = EmixHeaderUnmarshalBinaryFromReader(
                        [ZeroEmixHeader EXCEPT !.Password = pw], wire', chunk)
    /\ cpc' = "read"
    /\ UNCHANGED << hdr, fiEnc, fiDec, fiIn, enc, changed, file, det >>
    /\ UNCHANGED << contentVars, fileVars, cryptoVars >>

NextCodec ==
    \/ MarshalFileInfo
    \/ UnmarshalFileInfo
    \/ ReceiveFileInfo
    \/ UnmarshalReceived
    \/ MarshalHeader
    \/ ChangeByte
    \/ CutHeader
    \/ ForgeHeader
    \/ ReadHeader
    \/ UnmarshalHeader

SpecCodec == InitCodec /\ [][NextCodec]_vars

-----------------------------------------------------------------------------
(* The detection machine: IsEmixFile is asked about a file. *)

\* a container as domix leaves it: prefix, header, content
DetectBase(n) ==
    ZipHeader
        \o EmixHeaderMarshalBinary(
               [ZeroEmixHeader EXCEPT !.FileInfo = SampleFileInfo(n, FALSE)],
               RandBytes(1, 16), RandBytes(2, GCMNonceSize)).out
        \o [i \in 1..(n - 1) |-> 7]

\* the files asked about: a container whose header has the minimum length and
\* no content, or a longer one, cut to a length and with one byte changed
DetectCuts == { 0, 4, 67, 68, 198, 199, 200 }
DetectChanges == 0..70 \cup { 199, 200 }
DetectFiles ==
    { LET base == DetectBase(n)
          cutf == SubSeq(base, 1, Min(cut, Len(base)))
      IN  IF p >= 1 /\ p <= Len(cutf) THEN [cutf EXCEPT ![p] = (@ + 1) % 256] ELSE cutf :
        n \in { 1, 2 }, cut \in DetectCuts, p \in DetectChanges }

InitDetect ==
    /\ ContentIdle
    /\ FileIdle
    /\ CryptoIdle
    /\ cpc = "file"
    /\ hdr = ZeroEmixHeader
    /\ fiEnc = NoBytes
    /\ fiDec = NoFileInfo
    /\ fiIn = NoInput
    /\ enc = NoBytes
    /\ wire = << >>
    /\ changed = 0
    /\ caller = Zeros(16)
    /\ dec = NoHeader
    /\ file \in DetectFiles
    /\ det = NoDetect

\* emix.IsEmixFile(f)
Detect ==
    /\ cpc = "file"
    /\ det' = IsEmixFile(file)
    /\ cpc' = "detected"
    /\ UNCHANGED << hdr, fiEnc, fiDec, fiIn, enc, wire, changed, caller, dec, file >>
    /\ UNCHANGED << contentVars, fileVars, cryptoVars >>

NextDetect == Detect

SpecDetect == InitDetect /\ [][NextDetect]_vars

-----------------------------------------------------------------------------
(* The content machine: EncryptContent reads a plaintext stream turn by turn,
   then DecryptContent reads the ciphertext, whole or cut short. *)

\* the longest plaintext, in sectors
MaxSectors == 2

\* how many short reads one reader may make
MaxShortReads == 1

PlainSizes ==
    { 0, 1, XTSSectorSize - 1 }
        \cup { k * XTSSectorSize : k \in 1..MaxSectors }
        \cup { k * XTSSectorSize + 1 : k \in 1..(MaxSectors - 1) }

\* the plaintext: bytes pos+1 .. pos+n of a stream whose sectors differ
PlainBytes(pos, n) ==
    [i \in 1..n |-> (3 * (pos + i) + 17 * ((pos + i) \div XTSSectorSize) + 5) % 256]

\* the cipher of content_test.go
ContentCipher == NewAESXTS(TestPassword)

InitContent ==
    /\ CodecIdle
    /\ FileIdle
    /\ CryptoIdle
    /\ kpc = "encrypting"
    /\ plainLen \in PlainSizes
    /\ epos = 0
    /\ eshort = 0
    /\ es = EncryptContentStart
    /\ stream = << >>
    /\ dpos = 0
    /\ dshort = 0
    /\ ds = DecryptContentStart(0)

\* one turn of EncryptContent's loop
EncryptTurn ==
    /\ kpc = "encrypting"
    /\ \E r \in ReadOutcomes(plainLen - epos, XTSSectorSize, eshort < MaxShortReads),
          w \in WriteOutcomes :
          /\ es' = EncryptContentStep(ContentCipher, es, PlainBytes(epos, r.n), r.err, w)
          /\ epos' = epos + r.n
          /\ eshort' = eshort + (IF IsShortRead(r, plainLen - epos, XTSSectorSize) THEN 1 ELSE 0)
    /\ kpc' = IF es'.res = "running" THEN "encrypting" ELSE "encrypted"
    /\ UNCHANGED << plainLen, stream, dpos, dshort, ds >>
    /\ UNCHANGED << codecVars, fileVars, cryptoVars >>

\* the lengths the ciphertext may have when it is read back: whole, a byte
\* short, a sector short
StreamCuts(len) ==
    { len } \cup (IF len > 0 THEN { len - 1 } ELSE { })
            \cup (IF len >= XTSSectorSize THEN { len - XTSSectorSize } ELSE { })

\* DecryptContent(cipher, reader, writer, size) is entered
StartDecrypt ==
    /\ kpc = "encrypted"
    /\ es.res = "nil"
    /\ \E cut \in StreamCuts(Len(es.written)) : stream' = SubSeq(es.written, 1, cut)
    /\ ds' = DecryptContentStart(plainLen)
    /\ dpos' = 0
    /\ dshort' = 0
    /\ kpc' = IF ds'.res = "running" THEN "decrypting" ELSE "decrypted"
    /\ UNCHANGED << plainLen, epos, eshort, es >>
    /\ UNCHANGED << codecVars, fileVars, cryptoVars >>

\* one turn of DecryptContent's loop
DecryptTurn ==
    /\ kpc = "decrypting"
    /\ \E r \in ReadOutcomes(Len(stream) - dpos, XTSSectorSize, dshort < MaxShortReads),
          w \in WriteOutcomes :
          /\ ds' = DecryptContentStep(ContentCipher, ds,
                                      SubSeq(stream, dpos + 1, dpos + r.n), r.err, w)
          /\ dpos' = dpos + r.n
          /\ dshort' = dshort + (IF IsShortRead(r, Len(stream) - dpos, XTSSectorSize) THEN 1 ELSE 0)
    /\ kpc' = IF ds'.res = "running" THEN "decrypting" ELSE "decrypted"
    /\ UNCHANGED << plainLen, epos, eshort, es, stream >>
    /\ UNCHANGED << codecVars, fileVars, cryptoVars >>

NextContent ==
    \/ EncryptTurn
    \/ StartDecrypt
    \/ DecryptTurn

SpecContent == InitContent /\ [][NextContent]_vars

-----------------------------------------------------------------------------
(* The domix / demix machine: domix is run on one source file with a command
   line, and demix is run on the file it wrote with another. *)

\* what the terminal may hand over as a password, and credential files
PasswordA == << 112, 97, 115, 115 >>
PasswordB == << 119, 111, 114, 100, 50 >>
CredentialA == [i \in 1..40 |-> (7 * i + 3) % 256]

\* the source files: a name and the bytes, from the empty file to one that
\* ends one byte into its second sector
SourceFile(nameLen, size) ==
    [name |-> NameOf(nameLen), data |-> PlainBytes(0, size), mode |-> << 420, 0 >>,
     ctime |-> << 1, 2, 3, 4 >>, mtime |-> << 5, 6, 7, 8 >>]
SourceFiles ==
    { SourceFile(1, 0), SourceFile(8, 1), SourceFile(8, XTSSectorSize),
      SourceFile(255, XTSSectorSize + 1) }

\* the command lines of domix, with what the terminal answers when it is
\* asked for the password and asked again
Terminal == { << PasswordA, PasswordA >>, << PasswordA, PasswordB >>, << << >>, << >> >> }
DomixCommandLines ==
    { [NoDomix EXCEPT !.MixType = t, !.Password = TRUE, !.CredentialFile = cf,
                      !.EmbedPassword = em, !.typed = ty[1], !.again = ty[2],
                      !.cred = IF cf THEN CredentialA ELSE << >>] :
        t \in -1..3, cf \in BOOLEAN, em \in BOOLEAN, ty \in Terminal }
    \cup
    { [NoDomix EXCEPT !.MixType = t, !.CredentialFile = cf, !.EmbedPassword = em,
                      !.cred = IF cf THEN CredentialA ELSE << >>] :
        t \in -1..3, cf \in BOOLEAN, em \in BOOLEAN }

\* the command lines of demix
DemixCommandLines ==
    { [NoDemix EXCEPT !.Password = TRUE, !.CredentialFile = cf, !.typed = ty,
                      !.cred = IF cf THEN CredentialA ELSE << >>] :
        cf \in BOOLEAN, ty \in { PasswordA, PasswordB } }
    \cup
    { [NoDemix EXCEPT !.CredentialFile = cf, !.cred = IF cf THEN CredentialA ELSE << >>] :
        cf \in BOOLEAN }

InitFile ==
    /\ CodecIdle
    /\ ContentIdle
    /\ CryptoIdle
    /\ fpc = "domix"
    /\ dom \in DomixCommandLines
    /\ srcFile \in SourceFiles
    /\ ef = NoEncryptFile
    /\ target = << >>
    /\ dem = NoDemix
    /\ df = NoDecryptFile

\* o.Validate(args[0]) of domix
ValidateDomix ==
    /\ fpc = "domix"
    /\ LET v == DomixValidate(dom, dom.typed, dom.again, dom.cred)
       IN  /\ dom' = [v.o EXCEPT !.err = v.err]
           /\ fpc' = IF v.err = "nil" THEN "domix validated" ELSE "domix rejected"
    /\ UNCHANGED << srcFile, ef, target, dem, df >>
    /\ UNCHANGED << codecVars, contentVars, cryptoVars >>

\* the Read or Write of the content loop that fails: none, the first, the
\* second
ContentFailures ==
    { NoFailure } \cup { [err |-> e, at |-> k] : e \in { "ErrRead", "ErrWrite" }, k \in { 0, 1 } }

\* o.EncryptFile(src, info, outDir) up to the end of the content
EncryptFileWriteContent ==
    /\ fpc = "domix validated"
    /\ \E io \in ContentFailures :
          LET emixHeader == EncryptFileHeader(dom, srcFile)
              c == EncryptFileContent(dom, emixHeader, srcFile, io)
          IN  /\ ef' = [emixHeader |-> emixHeader, hash |-> c.hash, res |-> c.res]
              /\ target' = c.target
              /\ fpc' = IF c.res = "running" THEN "content written" ELSE "mixed"
    /\ UNCHANGED << dom, srcFile, dem, df >>
    /\ UNCHANGED << codecVars, contentVars, cryptoVars >>

\* o.EncryptFile from targetFile.Seek(0, io.SeekStart) to its return
EncryptFileWritePrefix ==
    /\ fpc = "content written"
    /\ \E k \in 1..RandChoices :
          LET r == EncryptFilePrefix(ef.emixHeader, target, ef.hash,
                                     RandBytes(k, 16), RandBytes(k + 1, GCMNonceSize))
          IN  /\ ef' = [ef EXCEPT !.emixHeader = r.emixHeader, !.res = r.res]
              /\ target' = r.target
    /\ fpc' = "mixed"
    /\ UNCHANGED << dom, srcFile, dem, df >>
    /\ UNCHANGED << codecVars, contentVars, cryptoVars >>

\* o.Validate(args[0]) of demix, run on the file domix wrote
ValidateDemix ==
    /\ fpc = "mixed"
    /\ ef.res = "nil"
    /\ \E o \in DemixCommandLines :
          LET v == DemixValidate(o, o.typed, o.cred)
          IN  /\ dem' = [v.o EXCEPT !.err = v.err]
              /\ fpc' = IF v.err = "nil" THEN "demix validated" ELSE "demix rejected"
    /\ UNCHANGED << dom, srcFile, ef, target, df >>
    /\ UNCHANGED << codecVars, contentVars, cryptoVars >>

\* o.DecryptFile(o.source, o.Output)
DecryptFileRun ==
    /\ fpc = "demix validated"
    /\ df' = DecryptFile(dem, target)
    /\ fpc' = "demixed"
    /\ UNCHANGED << dom, srcFile, ef, target, dem >>
    /\ UNCHANGED << codecVars, contentVars, cryptoVars >>

NextFile ==
    \/ ValidateDomix
    \/ EncryptFileWriteContent
    \/ EncryptFileWritePrefix
    \/ ValidateDemix
    \/ DecryptFileRun

SpecFile == InitFile /\ [][NextFile]_vars

-----------------------------------------------------------------------------
(* The AES-GCM machine: a plaintext is sealed under a key, the bytes may lose
   their tail on the way, and they are opened under a key. *)

\* the keys: none, the one of header_test.go, a typed password
CryptoKeys == { NoPassword, TestPassword, CopyPassword(PasswordA) }

\* the plaintexts: crypto_test.go's, the empty one, and FileInfo encodings
CryptoPlainTexts ==
    { << >>, << 104, 101, 108, 108, 111, 32, 119, 111, 114, 108, 100 >>,
      FileInfoMarshalBinary(SampleFileInfo(1, FALSE)).out,
      FileInfoMarshalBinary(SampleFileInfo(8, TRUE)).out }

\* the lengths a ciphertext of len bytes is cut to
CryptoCuts(len) == 0..GCMNonceSize \cup { GCMNonceSize + GCMTagSize - 1, len - 1 }

InitCrypto ==
    /\ CodecIdle
    /\ ContentIdle
    /\ FileIdle
    /\ xpc = "plain"
    /\ xkey \in CryptoKeys
    /\ xplain \in CryptoPlainTexts
    /\ xnonce = << >>
    /\ xsealed = << >>
    /\ xcut = FALSE
    /\ xkey2 = Zeros(16)
    /\ xopened = NoBytes

\* AESGCMEncrypt(plainText, key)
Encrypt ==
    /\ xpc = "plain"
    /\ \E k \in 1..RandChoices :
          /\ xnonce' = RandBytes(k, GCMNonceSize)
          /\ xsealed' = AESGCMEncrypt(xplain, xkey, xnonce')
    /\ xpc' = "sealed"
    /\ UNCHANGED << xkey, xplain, xcut, xkey2, xopened >>
    /\ UNCHANGED << codecVars, contentVars, fileVars >>

\* the ciphertext loses its tail
CutCipherText ==
    /\ xpc = "sealed"
    /\ \E c \in CryptoCuts(Len(xsealed)) : xsealed' = SubSeq(xsealed, 1, c)
    /\ xcut' = TRUE
    /\ xpc' = "cut"
    /\ UNCHANGED << xkey, xplain, xnonce, xkey2, xopened >>
    /\ UNCHANGED << codecVars, contentVars, fileVars >>

\* AESGCMDecrypt(cipherText, key)
Decrypt ==
    /\ xpc \in { "sealed", "cut" }
    /\ \E key \in CryptoKeys :
          /\ xkey2' = key
          /\ xopened' = AESGCMDecrypt(xsealed, key)
    /\ xpc' = "opened"
    /\ UNCHANGED << xkey, xplain, xnonce, xsealed, xcut >>
    /\ UNCHANGED << codecVars, contentVars, fileVars >>

NextCrypto ==
    \/ Encrypt
    \/ CutCipherText
    \/ Decrypt

SpecCrypto == InitCrypto /\ [][NextCrypto]_vars

-----------------------------------------------------------------------------
(* Properties of the codec machine *)

NameLen == Len(hdr.FileInfo.Name)
ValidName == NameLen >= 1 /\ NameLen <= 255

\* C1: for a FileInfo whose name is 1..255 bytes long, MarshalBinary succeeds
\* and UnmarshalBinary of its output into a fresh FileInfo succeeds and gives
\* back every field of the original.
C1_FileInfoRoundTrip ==
    /\ (cpc = "fileinfo marshalled" /\ ValidName) => fiEnc.err = "nil"
    /\ cpc = "fileinfo unmarshalled" =>
          /\ fiDec.err = "nil"
          /\ fiDec.f.Name = hdr.FileInfo.Name
          /\ fiDec.f.Size = hdr.FileInfo.Size
          /\ fiDec.f.Mode = hdr.FileInfo.Mode
          /\ fiDec.f.CreateTime = hdr.FileInfo.CreateTime
          /\ fiDec.f.ModifyTime = hdr.FileInfo.ModifyTime
          /\ fiDec.f.FileContentHash = hdr.FileInfo.FileContentHash

C1_Witness ==
    /\ cpc = "fileinfo unmarshalled"
    /\ NameLen = 255
    /\ fiDec.err = "nil"
    /\ fiDec.f.Size = <<65535, 65535, 65535, 65535>>
    /\ fiDec.f.ModifyTime = <<65535, 0, 0, 32768>>

\* the two variants of header_test.go: nothing encrypted, no password held;
\* and the file info encrypted under a password embedded in the header
PlainVariant ==
    ~hdr.EncryptInfo /\ ~hdr.EncryptData /\ ~hdr.EmbedPassword /\ hdr.Password = NoPassword
EmbeddedVariant == hdr.EncryptInfo /\ hdr.EmbedPassword

\* C2: for a valid EmixHeader of either variant, UnmarshalBinary of the bytes
\* MarshalBinary produced, into a fresh EmixHeader, succeeds and yields a
\* header equal to the original; and the number of bytes produced is
\* EncodedLength(), 28 more when EncryptInfo is set.
C2_HeaderRoundTrip ==
    /\ (cpc = "marshalled" /\ ValidName) =>
          /\ enc.err = "nil"
          /\ Len(enc.out) = EmixHeaderEncodedLength(hdr)
          /\ Len(enc.out) = 40 + FileInfoEncodedLength(hdr.FileInfo) + 32
                               + (IF hdr.EncryptInfo THEN 28 ELSE 0)
    /\ (cpc = "unmarshalled" /\ changed = 0 /\ caller = NoPassword
            /\ (PlainVariant \/ EmbeddedVariant)) =>
          /\ dec.err = "nil"
          /\ dec.e = hdr

C2_Witness ==
    /\ cpc = "unmarshalled"
    /\ changed = 0
    /\ caller = NoPassword
    /\ EmbeddedVariant
    /\ hdr.Password = TestPassword
    /\ NameLen = 255
    /\ Len(enc.out) = 40 + 317 + 28 + 32
    /\ dec.err = "nil"
    /\ dec.e.FileInfo = hdr.FileInfo

\* where the encoded header's fields lie (1-based, inclusive)
FileInfoRegion == 41..(Len(enc.out) - 32)
HashRegion == (Len(enc.out) - 31)..Len(enc.out)

\* C5: header decode returns nil only if the 32 bytes that follow the file
\* info region are the hash of all header bytes before them; a change of any
\* byte of the hash region, or of any byte of the file info ciphertext when
\* EncryptInfo is set, makes UnmarshalBinary return an error.
C5_TamperDetected ==
    cpc = "unmarshalled" =>
        /\ dec.err = "nil" =>
              LET i == 40 + 256 * wire[39] + wire[40]
              IN  SubSeq(wire, i + 1, i + 32) = Sum256(SubSeq(wire, 1, i))
        /\ (changed > 0 /\ changed \in HashRegion) => dec.err # "nil"
        /\ (hdr.EncryptInfo /\ changed > 0 /\ changed \in FileInfoRegion) =>
              dec.err # "nil"

C5_Witness ==
    /\ cpc = "unmarshalled"
    /\ hdr.EncryptInfo
    /\ ~hdr.EmbedPassword
    /\ caller = hdr.Password
    /\ changed \in FileInfoRegion
    /\ changed > 40 + GCMNonceSize
    /\ dec.err = "ErrOpen"

\* C7: FileInfo.MarshalBinary returns ErrNameTooShort and no bytes for a name
\* of 0 bytes, ErrNameTooLong and no bytes for a name longer than 255 bytes,
\* and succeeds for 1..255 bytes; EmixHeader.MarshalBinary returns the same
\* error and no bytes.
NameBounds(r) ==
    /\ NameLen = 0 => (r.err = "ErrNameTooShort" /\ r.out = << >>)
    /\ NameLen > 255 => (r.err = "ErrNameTooLong" /\ r.out = << >>)
    /\ ValidName => (r.err = "nil" /\ Len(r.out) > 0)

C7_NameBounds ==
    /\ cpc = "fileinfo marshalled" => NameBounds(fiEnc)
    /\ cpc = "marshalled" => NameBounds(enc)

C7_Witness ==
    /\ cpc = "marshalled"
    /\ NameLen = 256
    /\ hdr.EncryptInfo
    /\ enc.err = "ErrNameTooLong"
    /\ enc.out = << >>

-----------------------------------------------------------------------------
(* Properties of the detection machine *)

\* C8: IsEmixFile returns (false, nil) for a file shorter than 64 bytes plus
\* the minimum header length (64 + 135), for one that does not begin with the zip
\* signature and 60 zero bytes, and for one whose bytes 64..67 are not EMIX;
\* it returns (true, nil) exactly when all three checks pass, whatever the
\* bytes after the header magic are.
C8_Detection ==
    cpc = "detected" =>
        /\ det.err = "nil"
        /\ det.ok = ( /\ Len(file) >= 64 + 135
                      /\ SubSeq(file, 1, 4) = << 80, 75, 3, 4 >>
                      /\ \A i \in 5..64 : file[i] = 0
                      /\ SubSeq(file, 65, 68) = << 69, 77, 73, 88 >> )

C8_Witness ==
    /\ cpc = "detected"
    /\ Len(file) >= 199
    /\ SubSeq(file, 1, 4) = << 80, 75, 3, 4 >>
    /\ file[64] # 0
    /\ SubSeq(file, 65, 68) = << 69, 77, 73, 88 >>
    /\ det = [ok |-> FALSE, err |-> "nil"]

-----------------------------------------------------------------------------
(* Properties of the content machine *)

\* neither reader made a short read and the ciphertext is read back whole
FullReads == eshort = 0 /\ dshort = 0 /\ stream = es.written

\* C3: when the plaintext reader fills the buffer on every read except the
\* last, DecryptContent with size = len(plaintext) over the bytes EncryptContent
\* wrote (read back whole, sector by sector, no read or write failing) returns
\* nil and writes exactly the plaintext, for every length, 0 included.
C3_ContentRoundTrip ==
    (kpc = "decrypted" /\ FullReads /\ ds.res \notin { "ErrRead", "ErrWrite" }) =>
        /\ ds.res = "nil"
        /\ ds.out = PlainBytes(0, plainLen)

C3_Witness ==
    /\ kpc = "decrypted"
    /\ FullReads
    /\ plainLen = XTSSectorSize + 1
    /\ Len(es.written) = 2 * XTSSectorSize
    /\ ds.res = "nil"
    /\ Len(ds.out) = XTSSectorSize + 1

\* C9: in DecryptContent, while logical bytes remain, a read that returns n
\* bytes with 0 < n < 4096 makes the call return ErrInvalidEmixFileContent,
\* and nothing is written for that sector.
C9_ShortSectorRefused ==
    [][ (kpc = "decrypting" /\ dpos' - dpos > 0 /\ dpos' - dpos < 4096) =>
           /\ kpc' = "decrypted"
           /\ ds'.res = "ErrInvalidEmixFileContent"
           /\ ds'.out = ds.out ]_vars

C9_Witness ==
    /\ kpc = "decrypted"
    /\ ds.lastN = XTSSectorSize - 1
    /\ ds.leftSize = 1
    /\ Len(ds.out) = XTSSectorSize
    /\ ds.res = "ErrInvalidEmixFileContent"

\* C10: DecryptContent returns nil only if it has written exactly size bytes.
C10_NilOnlyAfterAllBytes ==
    (kpc = "decrypted" /\ ds.res = "nil") => Len(ds.out) = plainLen

-----------------------------------------------------------------------------
(* Properties of the domix / demix machine *)

\* C4: for mix types 0, 1 and 2 and every secret source Validate permits, a
\* container written by EncryptFile and then processed by DecryptFile with the
\* same secret gives an output file whose bytes are those of the source, whose
\* name is the recorded FileInfo.Name, and whose SHA-256 is the FileContentHash
\* of the header, so that DecryptFile returns nil; the stored FileContentHash
\* is the hash of the plaintext whether or not the content is encrypted.
C4_EndToEnd ==
    /\ (fpc = "mixed" /\ ef.res = "nil") =>
          ef.emixHeader.FileInfo.FileContentHash = Sum256(srcFile.data)
    /\ (fpc = "demixed" /\ dom.MixType \in 0..2 /\ dem.password = dom.password) =>
          /\ df.res = "nil"
          /\ ~df.ignored
          /\ df.created
          /\ df.data = srcFile.data
          /\ df.name = srcFile.name
          /\ df.name = ef.emixHeader.FileInfo.Name
          /\ df.emixHeader.FileInfo.FileContentHash = Sum256(df.data)
          /\ df.emixHeader.FileInfo.FileContentHash = Sum256(srcFile.data)

C4_Witness ==
    /\ fpc = "demixed"
    /\ dom.MixType = 2
    /\ dom.CredentialFile
    /\ dem.CredentialFile
    /\ dem.password = dom.password
    /\ Len(srcFile.data) = XTSSectorSize + 1
    /\ Len(target) = 64 + 135 + 254 + 2 * XTSSectorSize
    /\ df.res = "nil"
    /\ df.data = srcFile.data

\* C6: decoding with a secret different from the one used to encode never
\* succeeds silently: with the file info encrypted, header decode returns the
\* authentication error of AESGCMDecrypt, and with the content encrypted
\* DecryptFile parses the header, emits bytes whose SHA-256 differs from the
\* header's FileContentHash and returns the content hash mismatch error.
C6_WrongSecretRefused ==
    (fpc = "demixed" /\ ~dom.EmbedPassword /\ dem.password # dom.password) =>
        /\ dom.MixType = 1 => (df.res = "ErrOpen" /\ ~df.created)
        /\ dom.MixType = 2 =>
              /\ df.created
              /\ df.emixHeader.FileInfo.FileContentHash # Sum256(df.data)
              /\ df.res = "File content hash mismatch"

-----------------------------------------------------------------------------
(* Properties of the AES-GCM machine *)

\* C11: AESGCMDecrypt(AESGCMEncrypt(p, k), k) returns p without error; the
\* ciphertext is the fresh nonce followed by the sealed bytes, len(p) + 28
\* bytes in all; and AESGCMDecrypt returns an error and no bytes for an input
\* shorter than the nonce size.
C11_GCMRoundTrip ==
    /\ xpc = "sealed" =>
          /\ Len(xsealed) = Len(xplain) + 28
          /\ SubSeq(xsealed, 1, 12) = xnonce
    /\ (xpc = "opened" /\ ~xcut /\ xkey2 = xkey) =>
          /\ xopened.err = "nil"
          /\ xopened.out = xplain
    /\ (xpc = "opened" /\ Len(xsealed) < 12) =>
          /\ xopened.err # "nil"
          /\ xopened.out = << >>

C11_Witness ==
    /\ xpc = "opened"
    /\ ~xcut
    /\ xkey2 = xkey
    /\ xkey = TestPassword
    /\ Len(xplain) = 70
    /\ Len(xsealed) = 98
    /\ xopened = [err |-> "nil", out |-> xplain]

-----------------------------------------------------------------------------
(* Properties of the domix / demix machine, continued *)

\* C12: for a container whose embed-password flag is set, decoding needs no
\* secret from the caller: whatever password demix is given, header decode
\* and the content decryption of DecryptFile are keyed by the secret embedded
\* in the header, so the source comes back.
C12_EmbeddedSecretKeys ==
    (fpc = "demixed" /\ dom.EmbedPassword) =>
        /\ df.res = "nil"
        /\ df.created
        /\ df.emixHeader.Password = ef.emixHeader.Password
        /\ df.data = srcFile.data

\* C13: when domix runs with --embed-password, the header of every file it
\* writes carries a 16-byte secret newly generated for that file, an outcome
\* of rand.Read and not a constant, and that secret keys the content
\* encryption.
C13_EmbeddedSecretGenerated ==
    (fpc = "mixed" /\ ef.res = "nil" /\ dom.EmbedPassword) =>
        /\ \E k \in 1..RandChoices : ef.emixHeader.Password = GenerateRandomPassword(k, 16)
        /\ SubSeq(target, 64 + 22 + 1, 64 + 38) = ef.emixHeader.Password

\* the content region of the container EncryptFile wrote
ContentRegion ==
    SubSeq(target, 64 + 40 + UnBE16(SubSeq(target, 64 + 39, 64 + 40)) + 32 + 1, Len(target))

\* C14: domix type 2 encrypts both the file info and the content: the header
\* has both flags set, its FileInfo bytes are AES-GCM ciphertext (28 bytes
\* longer than the encoding) and the content region is sector ciphertext;
\* type 1 encrypts only the file info, type 0 nothing.
C14_MixTypes ==
    (fpc = "mixed" /\ ef.res = "nil" /\ dom.MixType \in 0..2) =>
        /\ ef.emixHeader.EncryptInfo = (dom.MixType >= 1)
        /\ ef.emixHeader.EncryptData = (dom.MixType = 2)
        /\ target[64 + 22] = (IF dom.MixType = 0 THEN 0 ELSE IF dom.MixType = 1 THEN 1 ELSE 3)
        /\ UnBE16(SubSeq(target, 64 + 39, 64 + 40)) =
              FileInfoEncodedLength(ef.emixHeader.FileInfo) + (IF dom.MixType >= 1 THEN 28 ELSE 0)
        /\ dom.MixType < 2 => ContentRegion = srcFile.data
        /\ dom.MixType = 2 =>
              /\ Len(ContentRegion) = XTSSectorSize * ((Len(srcFile.data) + XTSSectorSize - 1) \div XTSSectorSize)
              /\ DecryptContentAll(NewAESXTS(dom.password), DecryptContentStart(Len(srcFile.data)),
                                   ContentRegion, 0).out = srcFile.data

-----------------------------------------------------------------------------
(* Properties of the codec machine, continued *)

\* C15: MarshalBinary writes Password into the 16-byte password field iff
\* EmbedPassword is set and 16 zero bytes otherwise; header decode overwrites
\* Password from the field only when the embed-password flag of the bytes is
\* set and otherwise leaves the caller's Password as it was.
C15_PasswordField ==
    /\ (cpc = "marshalled" /\ enc.err = "nil") =>
          SubSeq(enc.out, 23, 38) = (IF hdr.EmbedPassword THEN hdr.Password ELSE Zeros(16))
    /\ cpc = "unmarshalled" =>
          dec.e.Password =
              (IF Len(wire) >= 135 /\ SubSeq(wire, 1, 4) = << 69, 77, 73, 88 >>
                      /\ wire[21] % 2 = 1
               THEN SubSeq(wire, 23, 38) ELSE caller)

C15_Witness ==
    /\ cpc = "unmarshalled"
    /\ changed = 0
    /\ ~hdr.EmbedPassword
    /\ hdr.Password = TestPassword
    /\ SubSeq(wire, 23, 38) = Zeros(16)
    /\ caller = TestPassword
    /\ dec.err = "nil"
    /\ dec.e.Password = TestPassword

-----------------------------------------------------------------------------
(* Properties of the content machine, continued *)

\* C16: EncryptContent writes one full 4096-byte sector for every read of
\* the plaintext that returns at least one byte (the write not failing) and
\* nothing for a read that returns none, so the number of bytes written is
\* always a multiple of 4096; for an empty input whose reader does not fail it
\* writes nothing and returns nil.
C16_OneSectorPerRead ==
    /\ [](Len(es.written) % 4096 = 0)
    /\ []((kpc = "encrypted" /\ plainLen = 0 /\ es.res # "ErrRead") =>
             (es.res = "nil" /\ es.written = << >>))
    /\ [][ kpc = "encrypting" =>
              /\ (epos' > epos /\ es'.res # "ErrWrite") =>
                    Len(es'.written) = Len(es.written) + 4096
              /\ epos' = epos => es'.written = es.written ]_vars

C16_Witness ==
    /\ kpc = "encrypted"
    /\ plainLen = XTSSectorSize
    /\ eshort = 1
    /\ es.res = "nil"
    /\ Len(es.written) = 2 * XTSSectorSize

\* C17: in EncryptContent and in DecryptContent the sector number starts at
\* 1024 on every call and the k-th sector processed (k = 0, 1, ...) is given
\* to the cipher with 1024 + k; the number advances by one for each sector
\* written and never otherwise, so the k-th sector is decrypted under the
\* number it was encrypted under.
C17_SectorNumbers ==
    /\ \A k \in DOMAIN es.used : es.used[k] = 1024 + (k - 1)
    /\ \A k \in DOMAIN ds.used : ds.used[k] = 1024 + (k - 1)
    /\ es.sectorNumber = 1024 + Len(es.written) \div 4096
    /\ ds.sectorNumber = 1024 + (Len(ds.out) + 4095) \div 4096
    /\ \A k \in DOMAIN ds.used : k \in DOMAIN es.used /\ ds.used[k] = es.used[k]

C17_Witness ==
    /\ kpc = "decrypted"
    /\ es.used = << 1024, 1025 >>
    /\ ds.used = << 1024, 1025 >>
    /\ ds.sectorNumber = 1026
    /\ ds.res = "nil"

-----------------------------------------------------------------------------
(* Properties of the codec machine: flags and refusals *)

\* C18: for each of the 8 combinations of the three flags MarshalBinary sets
\* exactly bit 0 of flag byte 0 for embed-password, bit 0 of flag byte 1 for
\* encrypt-info and bit 1 of flag byte 1 for encrypt-data, every other flag bit
\* zero; header decode, given the secret used to encode, succeeds and recovers
\* the same three flags.
C18_FlagBits ==
    /\ (cpc = "marshalled" /\ enc.err = "nil") =>
          /\ enc.out[21] = (IF hdr.EmbedPassword THEN 1 ELSE 0)
          /\ enc.out[22] = (IF hdr.EncryptInfo THEN 1 ELSE 0) + (IF hdr.EncryptData THEN 2 ELSE 0)
    /\ (cpc = "unmarshalled" /\ changed = 0
            /\ (hdr.EmbedPassword \/ ~hdr.EncryptInfo \/ caller = hdr.Password)) =>
          /\ dec.err = "nil"
          /\ dec.e.EmbedPassword = hdr.EmbedPassword
          /\ dec.e.EncryptInfo = hdr.EncryptInfo
          /\ dec.e.EncryptData = hdr.EncryptData

C18_Witness ==
    /\ cpc = "unmarshalled"
    /\ changed = 0
    /\ hdr.EmbedPassword /\ hdr.EncryptInfo /\ hdr.EncryptData
    /\ wire[21] = 1
    /\ wire[22] = 3
    /\ dec.err = "nil"
    /\ dec.e.EmbedPassword /\ dec.e.EncryptInfo /\ dec.e.EncryptData

\* C19: header decode returns ErrInvalidEmixHeader, and decodes no file info,
\* for every input that is shorter than the minimum header length, whose first
\* 4 bytes are not the EMIX magic, or whose fileInfoLength field describes a
\* region that together with the 32-byte hash extends past the bytes there are.
C19_MalformedRefused ==
    (cpc = "unmarshalled"
        /\ (\/ Len(wire) < 135
            \/ SubSeq(wire, 1, 4) # << 69, 77, 73, 88 >>
            \/ Len(wire) < 40 + 256 * wire[39] + wire[40] + 32)) =>
        /\ dec.err = "ErrInvalidEmixHeader"
        /\ dec.e.FileInfo = ZeroFileInfo

C19_Witness ==
    /\ cpc = "unmarshalled"
    /\ changed = -1
    /\ Len(wire) >= 135
    /\ SubSeq(wire, 1, 4) = << 69, 77, 73, 88 >>
    /\ Len(wire) = 40 + 256 * wire[39] + wire[40] + 32 - 1
    /\ dec.err = "ErrInvalidEmixHeader"

\* C20: for every byte sequence that header decode accepts, EncodedLength()
\* of the decoded header is the number of header bytes occupied in the input,
\* 40 + the fileInfoLength field + 32, so that 64 + EncodedLength() is the
\* offset of the first content byte.
C20_LengthMatchesInput ==
    (cpc = "unmarshalled" /\ dec.err = "nil") =>
        EmixHeaderEncodedLength(dec.e) = 40 + 256 * wire[39] + wire[40] + 32

\* C21: FileInfo.UnmarshalBinary reads only bytes of the buffer it was given:
\* for every input it either returns ErrInvalidEncodedFileInfo or every index it
\* reads is below len(data), and an input shorter than 2 + nameLength + 60
\* bytes is refused with ErrInvalidEncodedFileInfo.
C21_ReadsInsideBuffer ==
    cpc = "received unmarshalled" =>
        /\ \/ fiDec.err = "ErrInvalidEncodedFileInfo"
           \/ fiDec.err = "nil" /\ fiDec.read <= Len(fiIn.data)
        /\ (Len(fiIn.data) >= 2 /\ Len(fiIn.data) < 2 + UnLE16(fiIn.data) + 60) =>
              fiDec.err = "ErrInvalidEncodedFileInfo"

\* C22: the result of UnmarshalBinaryFromReader depends only on the bytes of
\* the stream: for a valid encoded header followed by content it is the result
\* of decoding from a reader that hands out everything at once, whatever the
\* chunk size, and with the right secret it is nil with the encoded header.
C22_ReaderIndependent ==
    cpc = "read" =>
        /\ dec = EmixHeaderUnmarshalBinaryFromReader(
                    [ZeroEmixHeader EXCEPT !.Password = caller], wire, emixHeaderMaxLength)
        /\ (caller = NoPassword /\ (PlainVariant \/ EmbeddedVariant)) =>
              (dec.err = "nil" /\ dec.e = hdr)

\* C23: EncryptContent's output does not depend on how the plaintext reader
\* splits its data across Read calls: for an n-byte plaintext, short reads
\* before the end included, exactly ceil(n / 4096) sectors are written, and
\* DecryptContent with size n over them returns nil with the plaintext.
C23_SplitIndependent ==
    /\ (kpc # "encrypting" /\ es.res = "nil") =>
          Len(es.written) = ((plainLen + XTSSectorSize - 1) \div XTSSectorSize) * XTSSectorSize
    /\ (kpc = "decrypted" /\ dshort = 0 /\ stream = es.written
            /\ ds.res \notin { "ErrRead", "ErrWrite" }) =>
          /\ ds.res = "nil"
          /\ ds.out = PlainBytes(0, plainLen)

\* the offset EncryptFile seeks to before it writes the content
HeaderEnd == zipHeaderLength + EmixHeaderEncodedLength(EncryptFileHeader(dom, srcFile))

\* no byte of the prefix or of the header has been written to t
NoPrefix(t) == \A i \in 1..Min(Len(t), HeaderEnd) : t[i] = 0

\* C24: EncryptFile writes the disguise prefix and the header at offset 0 only
\* after the whole content region is written at 64 + EncodedLength() and the
\* content hash is final; when reading the source or writing the content
\* fails it returns the error with neither written, and IsEmixFile does not
\* recognise what is left of the output file.
C24_PrefixAfterContent ==
    /\ [](fpc = "content written" =>
            /\ NoPrefix(target)
            /\ SubSeq(target, HeaderEnd + 1, Len(target)) =
                  ContentBytes(dom, ef.emixHeader, srcFile.data)
            /\ HashSum(ef.hash) = Sum256(srcFile.data))
    /\ []((fpc = "mixed" /\ ef.res = ContentError(ef.emixHeader)) =>
            /\ NoPrefix(target)
            /\ ~IsEmixFile(target).ok)
    /\ [][ (NoPrefix(target) /\ ~NoPrefix(target')) =>
              fpc = "content written" ]_vars

C24_Witness ==
    /\ fpc = "mixed"
    /\ ef.res = "Write encrypted file content error"
    /\ Len(target) = HeaderEnd + XTSSectorSize
    /\ Len(srcFile.data) > XTSSectorSize
    /\ NoPrefix(target)
    /\ ~IsEmixFile(target).ok

=============================================================================
